---- MODULE Spec2Model ----
(***************************************************************************)
(* Model of storage/storage.py: the Storage handle over a SQLite location, *)
(* its chunked batch upserts, the descriptor upsert with its key-resolving *)
(* pre-pass, the three relation queries and the schema bootstrap.          *)
(*                                                                         *)
(* The store is modelled by what the code relies on: tables hold rows in   *)
(* insertion order, a session buffers the rows of its statements until     *)
(* commit and discards them when it is closed without commit, a statement  *)
(* may fail, and a SELECT binding more parameters than                     *)
(* SQLITE_LIMIT_VARIABLE_NUMBER is rejected by the engine.                 *)
(***************************************************************************)
EXTENDS Integers, Sequences, FiniteSets, TLC

\* ---------------------------------------------------------------- bounds
MaxLimit == 4      \* list_limit ranges over 1..MaxLimit
MaxRows == 3       \* most rows the store holds over all tables, and the
                   \* longest input list of one upsert call

\* ------------------------------------------------------ program constants
SCHEMA_VERSION == 6

VARIABLES
    list_limit,    \* Storage.list_limit: SQLITE_LIMIT_VARIABLE_NUMBER of the engine
    opened,        \* a Storage handle has been constructed on the location
    tables_exist,  \* the schema (with the schema_version table) exists on disk
    db,            \* committed rows of every table, in insertion order
    last           \* what the last operation did: statements, error, result

vars == <<list_limit, opened, tables_exist, db, last>>

\* ------------------------------------------------------------ data domains
Ids == {1, 2, 3}

\* the ids a filter of get_triplets_for may name
FilterIds == {1, 2}

ListKinds == {"journals", "triplets", "references", "structures",
              "taxo_names", "rank_names", "taxo_ranks", "taxo_parenting"}

Tables == ListKinds \cup {"structures_descriptors", "schema_version"}

\* sequences over S of length 0..n
SeqUpTo(S, n) == UNION {[1..k -> S] : k \in 0..n}

\* sequences over S without repetition, of length 0..n (the keys of a dict)
DistinctSeqUpTo(S, n) ==
    {s \in SeqUpTo(S, n) : \A i, j \in 1..Len(s) : i # j => s[i] # s[j]}

\* the input lists of an upsert: the first 0..MaxRows records of a sample
Prefixes(sample) == {[i \in 1..n |-> sample[((i - 1) % Len(sample)) + 1]] : n \in 0..MaxRows}

\* attribute mappings of the kinds this model does not look into
GenericLists == Prefixes(<<[id |-> 1], [id |-> 2], [id |-> 3]>>)

StructureLists ==
    Prefixes(<<[id |-> 1, smiles |-> "C"], [id |-> 2, smiles |-> "CC"]>>)

\* keys a descriptor batch may carry; "N" is never persisted
SmilesKeys == {"C", "CC", "N"}

TripletLists ==
    Prefixes(<<[reference_id |-> 1, structure_id |-> 1, taxon_id |-> 1],
               [reference_id |-> 2, structure_id |-> 1, taxon_id |-> 2],
               [reference_id |-> 1, structure_id |-> 2, taxon_id |-> 1]>>)

\* (id, child_id, parent_id, distance): 1 below 2 below 3, and the closure edge
ParentingLists == Prefixes(<<<<1, 1, 2, 1>>, <<2, 2, 3, 1>>, <<3, 1, 3, 2>>>>)

\* the columns the generic lookups are asked about
RelationColumns == {"child_id", "parent_id"}

\* ------------------------------------------------------------------ errors
NoError == [type |-> "none", kind |-> "", chunk |-> 0]

\* range() arg 3 must not be zero
ValueError == [type |-> "ValueError", kind |-> "", chunk |-> 0]

\* the exception session.execute raised, as the driver built it
StoreError == [type |-> "DBAPIError", kind |-> "", chunk |-> 0]

\* too many SQL variables
TooManyVariables == [type |-> "OperationalError", kind |-> "", chunk |-> 0]

\* ------------------------------------------------------------ log entries
InsertStmt(rows, ok) == [ev |-> "insert", rows |-> rows, ok |-> ok]

SelectStmt(params, ok) == [ev |-> "select", rows |-> params, ok |-> ok]

CommitStmt == [ev |-> "commit", rows |-> <<>>, ok |-> TRUE]

\* --------------------------------------------------------- python helpers
\* range(0, stop, step) for step > 0
Range(stop, step) == [k \in 1..((stop + step - 1) \div step) |-> (k - 1) * step]

SliceMutantDropsLast(s, i, j) ==
    SubSeq(s, i + 1, (IF j < Len(s) THEN j ELSE Len(s)) - 1)

\* s[i:j] for 0 <= i <= j
Slice(s, i, j) == SubSeq(s, i + 1, IF j < Len(s) THEN j ELSE Len(s))

\* the slices items[i : i + step] the loop of an upsert passes to execute
Batches(items, step) ==
    LET starts == Range(Len(items), step)
    IN  [k \in 1..Len(starts) |-> Slice(items, starts[k], starts[k] + step)]

RECURSIVE Concat(_)
Concat(ss) == IF ss = <<>> THEN <<>> ELSE Head(ss) \o Concat(Tail(ss))

TotalRows(d) ==
    Len(d["journals"]) + Len(d["triplets"]) + Len(d["references"])
    + Len(d["structures"]) + Len(d["structures_descriptors"])
    + Len(d["taxo_names"]) + Len(d["rank_names"]) + Len(d["taxo_ranks"])
    + Len(d["taxo_parenting"])

\* ------------------------------------------------------- schema bootstrap
EmptyDb == [t \in Tables |-> <<>>]

\* SELECT name FROM sqlite_master WHERE type='table' AND name='schema_version'
NewDbAlwaysMutant(exist) == TRUE

IsNewDb(exist) == ~exist

\* create_all (existing tables are kept), then the version marker is added
CreateTables(d) ==
    [d EXCEPT !["schema_version"] = Append(@, SCHEMA_VERSION)]

\* drop_all, then create_tables
DropAndCreateTables(d) == CreateTables(EmptyDb)

\* ---------------------------------------------------------------- session
\* the loop of session.execute calls; failAt is the ordinal of the statement
\* the store fails (0: none)
RECURSIVE ExecuteAll(_, _, _, _)
ExecuteAll(batches, k, failAt, acc) ==
    IF k > Len(batches) THEN acc
    ELSE IF k = failAt
         THEN [acc EXCEPT !.log = Append(@, InsertStmt(batches[k], FALSE)),
                          !.err = StoreError]
         ELSE ExecuteAll(batches, k + 1, failAt,
                  [acc EXCEPT !.pending = @ \o batches[k],
                              !.log = Append(@, InsertStmt(batches[k], TRUE))])

CloseMutantAutocommit(table, pending) == table \o pending

\* leaving the with-block without commit: the session's rows are discarded
Close(table, pending) == table

\* session.commit()
Commit(table, pending) == table \o pending

\* one upsert_<kind> call: [rows |-> the table afterwards, log, err]
RunUpsert(table, batchesOf, step, failAt) ==
    IF step = 0
    THEN [rows |-> Close(table, <<>>), log |-> <<>>, err |-> ValueError]
    ELSE LET run == ExecuteAll(batchesOf, 1, failAt,
                               [pending |-> <<>>, log |-> <<>>, err |-> NoError])
         IN  IF run.err = NoError
             THEN [rows |-> Commit(table, run.pending),
                   log |-> Append(run.log, CommitStmt), err |-> NoError]
             ELSE [rows |-> Close(table, run.pending),
                   log |-> run.log, err |-> run.err]

\* the divisor each upsert applies to list_limit to size its chunks
ChunkDivisor(kind) == IF kind = "triplets" THEN 3 ELSE 2

\* {"id": item[0], "child_id": item[1], "parent_id": item[2], "distance": item[3]}
ParentingRow(item) ==
    [id |-> item[1], child_id |-> item[2], parent_id |-> item[3],
     distance |-> item[4]]

ParentingRows(items) == [j \in 1..Len(items) |-> ParentingRow(items[j])]

\* ------------------------------------------------------------- the engine
\* SQLite rejects a statement that binds more than its variable-number limit
StoreAccepts(nparams, limit) == nparams <= limit

\* ------------------------------------------------------- descriptor upsert
DescriptorData ==
    {<<[name |-> "smiles", value |-> 0], [name |-> "mw", value |-> 1]>>,
     <<[name |-> "mw", value |-> 1], [name |-> "logp", value |-> 2]>>}

\* dicts smiles -> descriptor dict, as the sequence of their items
DescriptorBatches ==
    {d \in SeqUpTo([smiles : SmilesKeys, data : DescriptorData],
                   Cardinality(SmilesKeys)) :
        \A i, j \in 1..Len(d) : i # j => d[i].smiles # d[j].smiles}

\* what dict.get returns for a missing key
None == 0

\* {structure.smiles: structure.id for structure in structures_query}.get(smiles)
RECURSIVE SmilesToStructureId(_, _)
SmilesToStructureId(structures_query, smiles) ==
    IF structures_query = <<>> THEN None
    ELSE LET n == Len(structures_query)
             row == structures_query[n]
         IN  IF row.smiles = smiles THEN row.id
             ELSE SmilesToStructureId(SubSeq(structures_query, 1, n - 1), smiles)

\* the items of one entry that become rows: all but the reserved "smiles"
NamesKept(descriptor_data) ==
    LET NotSmiles(item) == item.name # "smiles"
    IN  SelectSeq(descriptor_data, NotSmiles)

EntryRows(structure_id, descriptor_data) ==
    LET kept == NamesKept(descriptor_data)
    IN  [j \in 1..Len(kept) |->
            [structure_id |-> structure_id,
             descriptor_name |-> kept[j].name,
             descriptor_value |-> kept[j].value]]

RECURSIVE DescriptorsToAdd(_, _)
DescriptorsToAdd(descriptors, structures_query) ==
    IF descriptors = <<>> THEN <<>>
    ELSE LET entry == Head(descriptors)
             structure_id == SmilesToStructureId(structures_query, entry.smiles)
         IN  (IF structure_id # None
              THEN EntryRows(structure_id, entry.data) ELSE <<>>)
             \o DescriptorsToAdd(Tail(descriptors), structures_query)

\* one upsert_structures_descriptors call: [rows, log, err]
RunDescriptors(structures, table, descriptors) ==
    LET keys == [i \in 1..Len(descriptors) |-> descriptors[i].smiles]
        smiles_set == {keys[i] : i \in 1..Len(keys)}
        InSet(row) == row.smiles \in smiles_set
    IN  IF ~StoreAccepts(Cardinality(smiles_set), list_limit)
        THEN [rows |-> Close(table, <<>>), log |-> <<SelectStmt(keys, FALSE)>>,
              err |-> TooManyVariables]
        ELSE LET to_add == DescriptorsToAdd(descriptors, SelectSeq(structures, InSet))
             IN  [rows |-> Commit(table, to_add),
                  log |-> <<SelectStmt(keys, TRUE)>>
                          \o (IF to_add # <<>> THEN <<InsertStmt(to_add, TRUE)>>
                              ELSE <<>>)
                          \o <<CommitStmt>>,
                  err |-> NoError]

\* ----------------------------------------------------------------- queries
\* get_generic_of_generic over two columns of one table
GetGenericOfGeneric(table, out, inp, item) ==
    {table[i][out] : i \in {j \in 1..Len(table) : table[j][inp] = item}}

UnionMutantKeepsLastChunk(output, found) == found

\* output |= {row[0] for row in result}
UnionInto(output, found) == output \cup found

\* the loop of get_generics_of_generics over list(items)
RECURSIVE ExpandLoop(_, _, _, _, _, _)
ExpandLoop(table, out, inp, batches, k, acc) ==
    IF k > Len(batches) THEN acc
    ELSE LET chunk == batches[k]
             keys == {chunk[i] : i \in 1..Len(chunk)}
         IN  IF ~StoreAccepts(Len(chunk), list_limit)
             THEN [acc EXCEPT !.log = Append(@, SelectStmt(chunk, FALSE)),
                              !.err = TooManyVariables, !.output = {}]
             ELSE ExpandLoop(table, out, inp, batches, k + 1,
                      [acc EXCEPT
                          !.log = Append(@, SelectStmt(chunk, TRUE)),
                          !.output = UnionInto(@,
                              {table[i][out] :
                                  i \in {j \in 1..Len(table) : table[j][inp] \in keys}})])

GetGenericsOfGenerics(table, out, inp, items_set) ==
    ExpandLoop(table, out, inp, Batches(items_set, list_limit), 1,
               [output |-> {}, log |-> <<>>, err |-> NoError])

\* a filter argument of get_triplets_for: None, or a set of ids
NoFilter == [present |-> FALSE, ids |-> {}]

FilterArgs ==
    {NoFilter} \cup {[present |-> TRUE, ids |-> s] : s \in SUBSET FilterIds}

FiltersMutantDropsTaxon(reference_ids, structure_ids, taxon_ids) ==
    (IF reference_ids.present
     THEN <<[column |-> "reference_id", ids |-> reference_ids.ids]>> ELSE <<>>)
    \o (IF structure_ids.present
        THEN <<[column |-> "structure_id", ids |-> structure_ids.ids]>> ELSE <<>>)

\* the filters list built from the arguments that are not None
Filters(reference_ids, structure_ids, taxon_ids) ==
    (IF reference_ids.present
     THEN <<[column |-> "reference_id", ids |-> reference_ids.ids]>> ELSE <<>>)
    \o (IF structure_ids.present
        THEN <<[column |-> "structure_id", ids |-> structure_ids.ids]>> ELSE <<>>)
    \o (IF taxon_ids.present
        THEN <<[column |-> "taxon_id", ids |-> taxon_ids.ids]>> ELSE <<>>)

RECURSIVE BoundParams(_)
BoundParams(filters) ==
    IF filters = <<>> THEN 0
    ELSE Cardinality(Head(filters).ids) + BoundParams(Tail(filters))

\* one get_triplets_for call: [output, log, err]
GetTripletsFor(table, reference_ids, structure_ids, taxon_ids) ==
    LET filters == Filters(reference_ids, structure_ids, taxon_ids)
        Passes(row) == \A f \in 1..Len(filters) :
                           row[filters[f].column] \in filters[f].ids
        n == BoundParams(filters)
        stmt == [ev |-> "select", rows |-> filters, ok |-> StoreAccepts(n, list_limit)]
    IN  IF ~StoreAccepts(n, list_limit)
        THEN [output |-> {}, log |-> <<stmt>>, err |-> TooManyVariables]
        ELSE [output |-> {<<table[i].reference_id, table[i].structure_id,
                            table[i].taxon_id>> :
                              i \in {j \in 1..Len(table) : Passes(table[j])}},
              log |-> <<stmt>>, err |-> NoError]

\* ------------------------------------------------------------------- state
Init ==
    /\ list_limit \in 1..MaxLimit
    /\ opened = FALSE
    /\ tables_exist = FALSE
    /\ db = EmptyDb
    /\ last = [op |-> "none", kind |-> "", input |-> <<>>, log |-> <<>>,
               err |-> NoError, result |-> {}]

\* Storage(path)
Open ==
    /\ opened' = TRUE
    /\ tables_exist' = TRUE
    /\ db' = IF IsNewDb(tables_exist) THEN CreateTables(db) ELSE db
    /\ last' = [op |-> "open", kind |-> "", input |-> <<>>, log |-> <<>>,
                err |-> NoError, result |-> {IsNewDb(tables_exist)}]
    /\ UNCHANGED list_limit

\* drop_and_create_tables()
DropAndCreate ==
    /\ opened
    /\ db' = DropAndCreateTables(db)
    /\ last' = [op |-> "drop_and_create", kind |-> "", input |-> <<>>,
                log |-> <<>>, err |-> NoError, result |-> {}]
    /\ UNCHANGED <<list_limit, opened, tables_exist>>

\* the body shared by the list upserts, given the statements' row lists
UpsertList(kind, items, batches, step, failAt) ==
    /\ opened
    /\ failAt \in 0..Len(batches)
    /\ LET r == RunUpsert(db[kind], batches, step, failAt)
       IN  /\ db' = [db EXCEPT ![kind] = r.rows]
           /\ last' = [op |-> "upsert", kind |-> kind, input |-> items,
                       log |-> r.log, err |-> r.err, result |-> {}]
    /\ TotalRows(db') <= MaxRows
    /\ UNCHANGED <<list_limit, opened, tables_exist>>

\* items[i : i + step] for i in range(0, len(items), step); range raises on step 0
LoopBatches(items, step) == IF step = 0 THEN <<>> ELSE Batches(items, step)

UpsertJournals ==
    \E journals \in GenericLists, failAt \in 0..MaxRows :
        LET step == list_limit \div ChunkDivisor("journals")
        IN  UpsertList("journals", journals, LoopBatches(journals, step), step, failAt)

UpsertTriplets ==
    \E triplets \in TripletLists, failAt \in 0..MaxRows :
        LET step == list_limit \div ChunkDivisor("triplets")
        IN  UpsertList("triplets", triplets, LoopBatches(triplets, step), step, failAt)

UpsertReferences ==
    \E references \in GenericLists, failAt \in 0..MaxRows :
        LET step == list_limit \div ChunkDivisor("references")
        IN  UpsertList("references", references, LoopBatches(references, step),
                       step, failAt)

UpsertStructures ==
    \E structures \in StructureLists, failAt \in 0..MaxRows :
        LET step == list_limit \div ChunkDivisor("structures")
        IN  UpsertList("structures", structures, LoopBatches(structures, step),
                       step, failAt)

UpsertTaxoNames ==
    \E taxo_names \in GenericLists, failAt \in 0..MaxRows :
        LET step == list_limit \div ChunkDivisor("taxo_names")
        IN  UpsertList("taxo_names", taxo_names, LoopBatches(taxo_names, step),
                       step, failAt)

UpsertRankNames ==
    \E ranks_names \in GenericLists, failAt \in 0..MaxRows :
        LET step == list_limit \div ChunkDivisor("rank_names")
        IN  UpsertList("rank_names", ranks_names, LoopBatches(ranks_names, step),
                       step, failAt)

UpsertTaxoRanks ==
    \E taxo_ranks \in GenericLists, failAt \in 0..MaxRows :
        LET step == list_limit \div ChunkDivisor("taxo_ranks")
        IN  UpsertList("taxo_ranks", taxo_ranks, LoopBatches(taxo_ranks, step),
                       step, failAt)

UpsertTaxoParenting ==
    \E parenting \in ParentingLists, failAt \in 0..MaxRows :
        LET step == list_limit \div ChunkDivisor("taxo_parenting")
            slices == LoopBatches(parenting, step)
        IN  UpsertList("taxo_parenting", parenting,
                       [k \in 1..Len(slices) |-> ParentingRows(slices[k])],
                       step, failAt)

UpsertStructuresDescriptors ==
    \E descriptors \in DescriptorBatches :
        /\ opened
        /\ LET r == RunDescriptors(db["structures"], db["structures_descriptors"],
                                   descriptors)
           IN  /\ db' = [db EXCEPT !["structures_descriptors"] = r.rows]
               /\ last' = [op |-> "descriptors", kind |-> "structures_descriptors",
                           input |-> descriptors, log |-> r.log, err |-> r.err,
                           result |-> {}]
        /\ TotalRows(db') <= MaxRows
        /\ UNCHANGED <<list_limit, opened, tables_exist>>

QueryOne ==
    \E out \in RelationColumns, inp \in RelationColumns, item \in Ids :
        /\ opened
        /\ last' = [op |-> "lookup", kind |-> "taxo_parenting",
                    input |-> <<out, inp, item>>, log |-> <<>>, err |-> NoError,
                    result |-> GetGenericOfGeneric(db["taxo_parenting"], out, inp,
                                                   item)]
        /\ UNCHANGED <<list_limit, opened, tables_exist, db>>

\* list(items): the elements of the set in an order the caller cannot choose
IdLists == DistinctSeqUpTo(Ids, Cardinality(Ids))

QueryMany ==
    \E out \in RelationColumns, inp \in RelationColumns, items_set \in IdLists :
        /\ opened
        /\ LET r == GetGenericsOfGenerics(db["taxo_parenting"], out, inp, items_set)
           IN  last' = [op |-> "expand", kind |-> "taxo_parenting",
                        input |-> <<out, inp, items_set>>, log |-> r.log,
                        err |-> r.err, result |-> r.output]
        /\ UNCHANGED <<list_limit, opened, tables_exist, db>>

QueryTriplets ==
    \E reference_ids \in FilterArgs, structure_ids \in FilterArgs,
       taxon_ids \in FilterArgs :
        /\ opened
        /\ LET r == GetTripletsFor(db["triplets"], reference_ids, structure_ids,
                                   taxon_ids)
           IN  last' = [op |-> "triplets_for", kind |-> "triplets",
                        input |-> <<reference_ids, structure_ids, taxon_ids>>,
                        log |-> r.log, err |-> r.err, result |-> r.output]
        /\ UNCHANGED <<list_limit, opened, tables_exist, db>>

\* ---------------------------------------------------------- specifications
\* An upsert touches the table of its kind alone, so the tables are checked
\* in groups: each specification opens the location and runs the operations
\* of one group.

\* the bootstrap and the list upserts of the literature and the fact table
Next ==
    \/ Open
    \/ DropAndCreate
    \/ UpsertJournals
    \/ UpsertReferences
    \/ UpsertTriplets
    \/ UpsertTaxoParenting

Spec == Init /\ [][Next]_vars

\* the taxonomy vocabulary
NextTaxonomy ==
    \/ Open
    \/ UpsertTaxoNames
    \/ UpsertRankNames
    \/ UpsertTaxoRanks

SpecTaxonomy == Init /\ [][NextTaxonomy]_vars

\* the structures and the descriptors resolved against them
NextDescriptors ==
    \/ Open
    \/ UpsertStructures
    \/ UpsertStructuresDescriptors

SpecDescriptors == Init /\ [][NextDescriptors]_vars

\* the fact table and the intersection query over it
NextTriplets ==
    \/ Open
    \/ UpsertTriplets
    \/ QueryTriplets

SpecTriplets == Init /\ [][NextTriplets]_vars

\* the closure table and the two generic lookups over it
NextRelation ==
    \/ Open
    \/ UpsertTaxoParenting
    \/ QueryOne
    \/ QueryMany

SpecRelation == Init /\ [][NextRelation]_vars

\* ------------------------------------------------------------- properties
\* the insert statements of the last operation, in the order issued
Inserts ==
    LET IsInsert(e) == e.ev = "insert" IN SelectSeq(last.log, IsInsert)

Selects ==
    LET IsSelect(e) == e.ev = "select" IN SelectSeq(last.log, IsSelect)

\* the rows the records of an input list are inserted as
InputRows ==
    IF last.kind = "taxo_parenting" THEN ParentingRows(last.input) ELSE last.input

\* the last operation was an upsert whose k-th insert the store failed
InsertFailed ==
    /\ last.op = "upsert"
    /\ last.log # <<>>
    /\ last.log[Len(last.log)].ev = "insert"
    /\ ~last.log[Len(last.log)].ok

RECURSIVE BoundBy(_)
BoundBy(rows) ==
    IF rows = <<>> THEN 0
    ELSE Cardinality(DOMAIN Head(rows)) + BoundBy(Tail(rows))

\* C1: when the insert of any chunk of an upsert call fails, the rows of every
\* table after the call are the rows before it: nothing of the chunks already
\* executed is visible and the rows of earlier calls are untouched.
UpsertAtomicity ==
    [][InsertFailed' => db' = db]_vars

\* a call failed at its second or a later chunk, on a table with earlier rows
UpsertAtomicityWitness ==
    /\ InsertFailed
    /\ Len(last.log) >= 2
    /\ db[last.kind] # <<>>

\* C2: every insert statement of upsert_triplets and upsert_taxo_parenting
\* binds at most list_limit parameters (rows of the chunk times bound columns).
InsertsWithinLimit ==
    (last.op = "upsert" /\ last.kind \in {"triplets", "taxo_parenting"})
        => \A k \in 1..Len(Inserts) : BoundBy(Inserts[k].rows) <= list_limit

\* C3: the chunks of a successful upsert are consecutive slices of the input
\* in input order whose concatenation is the input, none empty, all but the
\* last of one length and the last no longer, and the one commit comes last.
ChunksCoverInput ==
    (last.op = "upsert" /\ last.err = NoError) =>
        LET n == Len(Inserts)
        IN  /\ Concat([k \in 1..n |-> Inserts[k].rows]) = InputRows
            /\ \A k \in 1..n : Len(Inserts[k].rows) >= 1
            /\ \A j, k \in 1..(n - 1) : Len(Inserts[j].rows) = Len(Inserts[k].rows)
            /\ n >= 1 => Len(Inserts[n].rows) <= Len(Inserts[1].rows)
            /\ last.log = Inserts \o <<CommitStmt>>

\* a committed call of several chunks whose last chunk is the shorter one
ChunksCoverInputWitness ==
    /\ last.op = "upsert"
    /\ last.err = NoError
    /\ Len(Inserts) >= 2
    /\ Len(Inserts[Len(Inserts)].rows) < Len(Inserts[1].rows)

\* C4: with list_limit below the divisor of the kind, an upsert of a non-empty
\* list that the store does not fail returns without error and every chunk
\* holds exactly one record.
ChunkSizeFloorsToOne ==
    (/\ last.op = "upsert"
     /\ list_limit < ChunkDivisor(last.kind)
     /\ last.input # <<>>
     /\ ~InsertFailed)
        => /\ last.err = NoError
           /\ Inserts # <<>>
           /\ \A k \in 1..Len(Inserts) : Len(Inserts[k].rows) = 1

\* C10: the error of an upsert whose k-th insert failed is a PersistenceFailure
\* naming the kind and k, and the failed insert was issued once.
FailureNamesKindAndChunk ==
    InsertFailed =>
        /\ last.err = [type |-> "PersistenceFailure", kind |-> last.kind,
                       chunk |-> Len(Inserts)]
        /\ \A k \in 1..(Len(last.log) - 1) : last.log[k].ok

\* C8: while the schema exists the schema_version table holds exactly the one
\* marker SCHEMA_VERSION; the open of an empty location creates the tables and
\* stamps it; an open of a bootstrapped location calls no create_tables and
\* leaves every row as it was.
IdempotentReopen ==
    [][/\ tables_exist' => db'["schema_version"] = <<SCHEMA_VERSION>>
       /\ (last'.op = "open" /\ tables_exist)
              => (db' = db /\ last'.result = {FALSE})
       /\ (last'.op = "open" /\ ~tables_exist)
              => last'.result = {TRUE}]_vars

\* a reopen of a location that holds rows
IdempotentReopenWitness ==
    /\ last.op = "open"
    /\ last.result = {FALSE}
    /\ TotalRows(db) >= 2
    /\ db["schema_version"] = <<SCHEMA_VERSION>>

\* ---- descriptors
PersistedSmiles ==
    {db["structures"][i].smiles : i \in 1..Len(db["structures"])}

RECURSIVE ExpectedDescriptorRows(_)
ExpectedDescriptorRows(descriptors) ==
    IF descriptors = <<>> THEN <<>>
    ELSE LET e == Head(descriptors)
             IsAttribute(item) == item.name # "smiles"
             attrs == SelectSeq(e.data, IsAttribute)
             sid == CHOOSE i \in {0} \cup Ids :
                        \/ /\ e.smiles \notin PersistedSmiles
                           /\ i = 0
                        \/ /\ i # 0
                           /\ [id |-> i, smiles |-> e.smiles] \in
                                {db["structures"][j] : j \in 1..Len(db["structures"])}
         IN  (IF e.smiles \in PersistedSmiles
              THEN [j \in 1..Len(attrs) |->
                       [structure_id |-> sid, descriptor_name |-> attrs[j].name,
                        descriptor_value |-> attrs[j].value]]
              ELSE <<>>)
             \o ExpectedDescriptorRows(Tail(descriptors))

\* C7: a descriptor batch raises no error, its unresolved entries add no row
\* and each resolved entry adds one row per attribute other than "smiles".
DescriptorsResolvedOrDropped ==
    last.op = "descriptors" =>
        /\ last.err = NoError
        /\ Concat([k \in 1..Len(Inserts) |-> Inserts[k].rows])
              = ExpectedDescriptorRows(last.input)

\* C9: no statement of the key-resolving pre-pass of
\* upsert_structures_descriptors holds more than list_limit keys.
PrePassWithinLimit ==
    last.op = "descriptors" =>
        \A k \in 1..Len(Selects) : Len(Selects[k].rows) <= list_limit

\* ---- queries
TripletRows == {db["triplets"][i] : i \in 1..Len(db["triplets"])}

ExpectedTriplets(R, S, X) ==
    {<<t.reference_id, t.structure_id, t.taxon_id>> :
        t \in {u \in TripletRows :
                 /\ (R.present => u.reference_id \in R.ids)
                 /\ (S.present => u.structure_id \in S.ids)
                 /\ (X.present => u.taxon_id \in X.ids)}}

FilterValues ==
    Cardinality(last.input[1].ids) + Cardinality(last.input[2].ids)
    + Cardinality(last.input[3].ids)

\* C5 as claimed: for every combination of filters get_triplets_for returns
\* the distinct triplets that pass every filter that is present.
TripletsForAnyFilters ==
    last.op = "triplets_for" =>
        /\ last.err = NoError
        /\ last.result = ExpectedTriplets(last.input[1], last.input[2], last.input[3])

\* C5 amended: when the filters hold at most list_limit values in total,
\* get_triplets_for returns the distinct triplets that pass every filter that
\* is present; with more values the statement is rejected and the call fails.
TripletsForWithinLimit ==
    last.op = "triplets_for" =>
        IF FilterValues <= list_limit
        THEN /\ last.err = NoError
             /\ last.result =
                    ExpectedTriplets(last.input[1], last.input[2], last.input[3])
        ELSE last.err # NoError

\* two filters present, one absent, some rows kept, some dropped, a duplicate
\* row collapsed
TripletsForWitness ==
    /\ last.op = "triplets_for"
    /\ last.err = NoError
    /\ last.input[1].present /\ last.input[2].present /\ ~last.input[3].present
    /\ last.result # {}
    /\ Cardinality(last.result) < Cardinality(TripletRows)
    /\ Cardinality(TripletRows) < Len(db["triplets"])

SetOf(seq) == {seq[i] : i \in 1..Len(seq)}

ParentingTable == SetOf(db["taxo_parenting"])

\* C6: get_generics_of_generics over V returns the out values of the rows whose
\* inp value is in V, and that is the union of its results over any A and B
\* with A \cup B = V, in whatever order the keys are listed.
ExpansionIsUnion ==
    last.op = "expand" =>
        LET out == last.input[1]
            inp == last.input[2]
            V == SetOf(last.input[3])
        IN  /\ last.err = NoError
            /\ last.result = {t[out] : t \in {u \in ParentingTable : u[inp] \in V}}
            /\ \A a, b \in IdLists :
                  SetOf(a) \cup SetOf(b) = V =>
                      GetGenericsOfGenerics(db["taxo_parenting"], out, inp, a).output
                      \cup GetGenericsOfGenerics(db["taxo_parenting"], out, inp, b).output
                          = last.result

\* more keys than one chunk holds, and a value only the first chunk finds
ExpansionIsUnionWitness ==
    /\ last.op = "expand"
    /\ Len(last.input[3]) > list_limit
    /\ Len(last.log) >= 2
    /\ LET chunk == last.log[Len(last.log)].rows
       IN  last.result #
               {t[last.input[1]] :
                   t \in {u \in ParentingTable : u[last.input[2]] \in SetOf(chunk)}}

====
